---- MODULE Spec2Model ----
(***************************************************************************)
(* OnlyFringe: the submission-and-verification workflow of app.py and      *)
(* fact_checker.py over the store of models.py.                            *)
(*                                                                         *)
(* Python values are tagged records, so that truthiness, dict.get and the  *)
(* comparison of a value with an integer behave as in Python:              *)
(*   [t |-> "none"]                 None (also: a key absent from the      *)
(*                                  request body, as data.get sees it)     *)
(*   [t |-> "missing"]              a key absent from a dict               *)
(*   [t |-> "bool", b |-> ...]      True / False                           *)
(*   [t |-> "int",  n |-> ...]      an integer                             *)
(*   [t |-> "str",  s |-> ...]      a short string                         *)
(*   [t |-> "text", len |-> ...]    a string known by its length           *)
(*   [t |-> "list", items |-> ...]  a list                                 *)
(*   [t |-> "dict", ...]            a JSON object (the verdict)            *)
(***************************************************************************)
EXTENDS Integers, Sequences, FiniteSets, TLC

VARIABLES
    users,       \* table user: sequence of rows, id = position
    arguments,   \* table argument (each row with its Source children)
    rebuttals,   \* table rebuttal (each row with its RebuttalSource children)
    apiKey,      \* Config.OPENAI_API_KEY
    resp,        \* the response of the request just handled, until it is sent
    inflight,    \* create_user requests between existence check and commit
    done,        \* the outcome of each concurrent create_user request
    now          \* the clock datetime.utcnow reads

vars == <<users, arguments, rebuttals, apiKey, resp, inflight, done, now>>

----------------------------------------------------------------------------
(* Bounds of the model *)

MaxUsers == 2
MaxArguments == 2
MaxRebuttals == 1
MaxSources == 2
MaxTime == 2

(* Config *)

MIN_SOURCES_REQUIRED == 2
MAX_ARGUMENT_LENGTH == 5000
MIN_ARGUMENT_LENGTH == 100
ApprovalThreshold == 70

----------------------------------------------------------------------------
(* Python values *)

NoneV == [t |-> "none"]
Missing == [t |-> "missing"]
PyBool(b) == [t |-> "bool", b |-> b]
PyInt(n) == [t |-> "int", n |-> n]
PyStr(s) == [t |-> "str", s |-> s]
PyText(n) == [t |-> "text", len |-> n]
PyList(items) == [t |-> "list", items |-> items]

\* bool(v)
Truthy(v) ==
    CASE v.t = "none" -> FALSE
      [] v.t = "missing" -> FALSE
      [] v.t = "bool" -> v.b
      [] v.t = "int" -> v.n # 0
      [] v.t = "str" -> v.s # ""
      [] v.t = "text" -> v.len > 0
      [] v.t = "list" -> Len(v.items) > 0
      [] v.t = "error" -> FALSE
      [] OTHER -> TRUE

\* len(v) of a string or a list
PyLen(v) ==
    CASE v.t = "text" -> v.len
      [] v.t = "list" -> Len(v.items)
      [] OTHER -> 0

\* d.get(key): the value, or None when the key is absent
Get(v) == IF v.t = "missing" THEN NoneV ELSE v

\* d.get(key, default)
GetOr(v, default) == IF v.t = "missing" THEN default ELSE v

----------------------------------------------------------------------------
(* fact_checker.py *)

\* The verdict check_argument and check_rebuttal return without a credential
NotConfiguredVerdict ==
    [t |-> "dict",
     is_valid |-> PyBool(FALSE),
     score |-> PyInt(0),
     issues |-> PyList(<<"OpenAI API key not configured">>),
     recommendations |->
         PyList(<<"Configure OPENAI_API_KEY to enable fact-checking">>)]

\* The verdict of the except branch; e is str(e) of the exception caught
ErrorVerdict(e) ==
    [t |-> "dict",
     is_valid |-> PyBool(FALSE),
     score |-> PyInt(0),
     issues |-> PyList(<<"Error during fact-checking", e>>),
     recommendations |-> PyList(<<"Please try again or contact support">>)]

\* What one call of the external judge can do: openai...create raises
\* (network error, timeout, API error), or it returns a message whose content
\* json.loads rejects, or one that json.loads parses to `value`.
JudgeRaises == [kind |-> "raises"]
JudgeNotJson == [kind |-> "not_json"]
JudgeJson(value) == [kind |-> "json", value |-> value]

\* A JSON object with the four keys of the prompt's format (each may be absent)
JsonVerdict(is_valid, score, issues, recommendations) ==
    [t |-> "dict", is_valid |-> is_valid, score |-> score,
     issues |-> issues, recommendations |-> recommendations]

\* The try/except of check_argument and check_rebuttal around the judge call
JudgeResult(reply) ==
    IF reply.kind = "raises" THEN ErrorVerdict("judge call failed")
    ELSE IF reply.kind = "not_json" THEN ErrorVerdict("invalid json")
    ELSE reply.value

\* check_argument without its credential guard
check_argument_unguarded(key, reply) ==
    [calls |-> 1, result |-> JudgeResult(reply)]

\* FactChecker.check_argument: [calls: judge calls made, result: the verdict]
check_argument(key, reply) ==
    IF ~Truthy(key)
    THEN [calls |-> 0, result |-> NotConfiguredVerdict]
    ELSE [calls |-> 1, result |-> JudgeResult(reply)]

\* check_rebuttal without its credential guard
check_rebuttal_unguarded(key, reply) ==
    [calls |-> 1, result |-> JudgeResult(reply)]

\* FactChecker.check_rebuttal
check_rebuttal(key, reply) ==
    IF ~Truthy(key)
    THEN [calls |-> 0, result |-> NotConfiguredVerdict]
    ELSE [calls |-> 1, result |-> JudgeResult(reply)]

\* validators.url(url): True, or a ValidationError object
ValidUrls == {"https://example.com/1"}
validators_url(url) ==
    IF url.t = "str" /\ url.s \in ValidUrls
    THEN PyBool(TRUE) ELSE [t |-> "error"]

\* ValidateSource taking every result but False for a valid URL
ValidateSource_not_false(source) ==
    LET url == GetOr(source.url, PyStr(""))
        validation_result ==
            IF Truthy(url) THEN validators_url(url) ELSE PyBool(FALSE)
    IN [url |-> url,
        is_valid_url |-> (validation_result # PyBool(FALSE)),
        title |-> Get(source.title),
        has_description |-> Truthy(Get(source.description))]

\* One entry of validate_sources' result
ValidateSource(source) ==
    LET url == GetOr(source.url, PyStr(""))
        validation_result ==
            IF Truthy(url) THEN validators_url(url) ELSE PyBool(FALSE)
    IN [url |-> url,
        is_valid_url |-> (validation_result = PyBool(TRUE)),
        title |-> Get(source.title),
        has_description |-> Truthy(Get(source.description))]

\* FactChecker.validate_sources, over the items of the list
validate_sources(items) ==
    [i \in 1..Len(items) |-> ValidateSource(items[i])]

----------------------------------------------------------------------------
(* models.py: the rows of the store *)

\* Source / RebuttalSource row built from one item of data['sources']
SourceRow(source_data) ==
    [url |-> source_data.url,
     title |-> Get(source_data.title),
     description |-> Get(source_data.description),
     is_valid |-> TRUE]

SourceRows(items) == [i \in 1..Len(items) |-> SourceRow(items[i])]

\* The unique constraints of User.username and User.email
UniqueViolation(us, username, email) ==
    \E i \in 1..Len(us) : us[i].username = username \/ us[i].email = email

\* db.session.add(user); db.session.commit(): the insert fails with
\* IntegrityError when a unique constraint is violated
CommitUser(us, data) ==
    IF UniqueViolation(us, data.username, data.email)
    THEN [raised |-> "IntegrityError", users |-> us]
    ELSE [raised |-> "none",
          users |-> Append(us, [id |-> Len(us) + 1,
                                username |-> data.username,
                                email |-> data.email])]

\* User.query.get(user_id)
UserFound(us, user_id) == user_id.t = "int" /\ user_id.n \in 1..Len(us)

----------------------------------------------------------------------------
(* app.py: responses *)

NoResp == [op |-> "none"]

Response(op, status, error) ==
    [op |-> op, status |-> status, error |-> error,
     invalid_sources |-> <<>>, fact_check |-> NoneV, judge_calls |-> 0,
     id |-> 0, argument_id |-> 0, data |-> NoneV, listing |-> <<>>]

\* No early return was taken
Pass == Response("", 0, "")

----------------------------------------------------------------------------
(* app.py: create_user *)

\* create_user_check with the existence query matching username AND email
create_user_check_both(data, us) ==
    IF ~Truthy(data.username) \/ ~Truthy(data.email)
    THEN Response("create_user", 400, "Username and email are required")
    ELSE IF \E i \in 1..Len(us) :
                us[i].username = data.username /\ us[i].email = data.email
    THEN Response("create_user", 409,
                  "User with this username or email already exists")
    ELSE Pass

\* Lines 55-64: the required fields and the existence query
create_user_check(data, us) ==
    IF ~Truthy(data.username) \/ ~Truthy(data.email)
    THEN Response("create_user", 400, "Username and email are required")
    ELSE IF \E i \in 1..Len(us) :
                us[i].username = data.username \/ us[i].email = data.email
    THEN Response("create_user", 409,
                  "User with this username or email already exists")
    ELSE Pass

\* Lines 66-70: the insert and the 201; an IntegrityError of the commit is
\* not caught, which Flask answers with 500
create_user_commit(data, us) ==
    LET c == CommitUser(us, data)
    IN IF c.raised # "none"
       THEN [users |-> us, resp |-> Response("create_user", 500, c.raised)]
       ELSE [users |-> c.users,
             resp |-> [Response("create_user", 201, "")
                           EXCEPT !.id = Len(c.users)]]

----------------------------------------------------------------------------
(* app.py: the structural checks of submit_argument and submit_rebuttal *)

\* TooFewSources without the count
TooFewSources_missing_only(sources) == ~Truthy(sources)

\* not data.get('sources') or len(data['sources']) < MIN_SOURCES_REQUIRED
TooFewSources(sources) ==
    ~Truthy(sources) \/ PyLen(sources) < MIN_SOURCES_REQUIRED

\* InvalidSources looking at the first source alone
InvalidSources_first_only(sources) ==
    SelectSeq(validate_sources(SubSeq(sources.items, 1, 1)),
              LAMBDA s : ~s.is_valid_url)

\* [s for s in source_validation if not s['is_valid_url']]
InvalidSources(sources) ==
    SelectSeq(validate_sources(sources.items), LAMBDA s : ~s.is_valid_url)

\* ArgumentChecks with the content length tested before the source count
ArgumentChecks_length_first(data, us) ==
    IF ~Truthy(data.title)
    THEN Response("submit_argument", 400, "Title is required")
    ELSE IF ~Truthy(data.content)
    THEN Response("submit_argument", 400, "Content is required")
    ELSE IF ~Truthy(data.user_id)
    THEN Response("submit_argument", 400, "User ID is required")
    ELSE IF PyLen(data.content) < MIN_ARGUMENT_LENGTH
    THEN Response("submit_argument", 400,
                  "Argument must be at least 100 characters")
    ELSE IF PyLen(data.content) > MAX_ARGUMENT_LENGTH
    THEN Response("submit_argument", 400,
                  "Argument must not exceed 5000 characters")
    ELSE IF TooFewSources(data.sources)
    THEN Response("submit_argument", 400, "At least 2 sources are required")
    ELSE IF ~UserFound(us, data.user_id)
    THEN Response("submit_argument", 404, "User not found")
    ELSE IF Len(InvalidSources(data.sources)) > 0
    THEN [Response("submit_argument", 400, "Invalid source URLs")
              EXCEPT !.invalid_sources = InvalidSources(data.sources)]
    ELSE Pass

\* submit_argument, lines 106-144: the response of the first early return
\* taken, or Pass
ArgumentChecks(data, us) ==
    IF ~Truthy(data.title)
    THEN Response("submit_argument", 400, "Title is required")
    ELSE IF ~Truthy(data.content)
    THEN Response("submit_argument", 400, "Content is required")
    ELSE IF ~Truthy(data.user_id)
    THEN Response("submit_argument", 400, "User ID is required")
    ELSE IF TooFewSources(data.sources)
    THEN Response("submit_argument", 400, "At least 2 sources are required")
    ELSE IF PyLen(data.content) < MIN_ARGUMENT_LENGTH
    THEN Response("submit_argument", 400,
                  "Argument must be at least 100 characters")
    ELSE IF PyLen(data.content) > MAX_ARGUMENT_LENGTH
    THEN Response("submit_argument", 400,
                  "Argument must not exceed 5000 characters")
    ELSE IF ~UserFound(us, data.user_id)
    THEN Response("submit_argument", 404, "User not found")
    ELSE IF Len(InvalidSources(data.sources)) > 0
    THEN [Response("submit_argument", 400, "Invalid source URLs")
              EXCEPT !.invalid_sources = InvalidSources(data.sources)]
    ELSE Pass

\* ParentChecks without the test of the parent's status
ParentChecks_any_status(argument_id, args) ==
    IF argument_id \notin 1..Len(args)
    THEN Response("submit_rebuttal", 404, "Not Found")
    ELSE Pass

\* submit_rebuttal, lines 191-195: the parent argument
ParentChecks(argument_id, args) ==
    IF argument_id \notin 1..Len(args)
    THEN Response("submit_rebuttal", 404, "Not Found")
    ELSE IF args[argument_id].verification_status # "approved"
    THEN Response("submit_rebuttal", 400, "Can only rebut approved arguments")
    ELSE Pass

\* submit_rebuttal, lines 197-223
RebuttalDataChecks(data, us) ==
    IF ~Truthy(data.content)
    THEN Response("submit_rebuttal", 400, "Content is required")
    ELSE IF ~Truthy(data.user_id)
    THEN Response("submit_rebuttal", 400, "User ID is required")
    ELSE IF TooFewSources(data.sources)
    THEN Response("submit_rebuttal", 400, "At least 2 sources are required")
    ELSE IF ~UserFound(us, data.user_id)
    THEN Response("submit_rebuttal", 404, "User not found")
    ELSE IF Len(InvalidSources(data.sources)) > 0
    THEN [Response("submit_rebuttal", 400, "Invalid source URLs")
              EXCEPT !.invalid_sources = InvalidSources(data.sources)]
    ELSE Pass

\* RebuttalChecks with the body validated before the parent's status
RebuttalChecks_data_first(argument_id, data, us, args) ==
    IF argument_id \notin 1..Len(args)
    THEN Response("submit_rebuttal", 404, "Not Found")
    ELSE IF RebuttalDataChecks(data, us) # Pass
    THEN RebuttalDataChecks(data, us)
    ELSE ParentChecks(argument_id, args)

\* submit_rebuttal, lines 191-223
RebuttalChecks(argument_id, data, us, args) ==
    IF ParentChecks(argument_id, args) # Pass
    THEN ParentChecks(argument_id, args)
    ELSE RebuttalDataChecks(data, us)

----------------------------------------------------------------------------
(* app.py: the verification decision, lines 172-177 and 251-256 *)

\* fact_check_result.get('score', 0) >= 70
ScoreAtLeast(score) ==
    CASE score.t = "int" -> [raised |-> "none", value |-> score.n >= ApprovalThreshold]
      [] score.t = "bool" ->
            [raised |-> "none",
             value |-> (IF score.b THEN 1 ELSE 0) >= ApprovalThreshold]
      [] OTHER -> [raised |-> "TypeError", value |-> FALSE]

\* Decision with the verified flag taken from is_valid alone
Decision_verified_by_is_valid(fact_check_result) ==
    IF fact_check_result.t # "dict"
    THEN [raised |-> "AttributeError", verification_status |-> "",
          is_verified |-> FALSE]
    ELSE IF ~Truthy(Get(fact_check_result.is_valid))
    THEN [raised |-> "none", verification_status |-> "rejected",
          is_verified |-> FALSE]
    ELSE LET c == ScoreAtLeast(GetOr(fact_check_result.score, PyInt(0)))
         IN IF c.raised # "none"
            THEN [raised |-> c.raised, verification_status |-> "",
                  is_verified |-> FALSE]
            ELSE IF c.value
            THEN [raised |-> "none", verification_status |-> "approved",
                  is_verified |-> TRUE]
            ELSE [raised |-> "none", verification_status |-> "rejected",
                  is_verified |-> TRUE]

\* if fact_check_result.get('is_valid') and ... >= 70: approved, else rejected.
\* A result that is no dict has no get (AttributeError); the comparison is
\* evaluated only when is_valid is truthy.
Decision(fact_check_result) ==
    IF fact_check_result.t # "dict"
    THEN [raised |-> "AttributeError", verification_status |-> "",
          is_verified |-> FALSE]
    ELSE IF ~Truthy(Get(fact_check_result.is_valid))
    THEN [raised |-> "none", verification_status |-> "rejected",
          is_verified |-> FALSE]
    ELSE LET c == ScoreAtLeast(GetOr(fact_check_result.score, PyInt(0)))
         IN IF c.raised # "none"
            THEN [raised |-> c.raised, verification_status |-> "",
                  is_verified |-> FALSE]
            ELSE IF c.value
            THEN [raised |-> "none", verification_status |-> "approved",
                  is_verified |-> TRUE]
            ELSE [raised |-> "none", verification_status |-> "rejected",
                  is_verified |-> FALSE]

----------------------------------------------------------------------------
(* The requests and judge replies the model draws from *)

MaxClients == 2
Clients == 1..MaxClients

SeqsUpTo(S, n) == UNION {[1..k -> S] : k \in 0..n}

\* create_user requests: two usernames, two emails, either one absent
UserInputs ==
    [username : {NoneV, PyStr("alice"), PyStr("bob")},
     email : {NoneV, PyStr("a@x.com"), PyStr("b@x.com")}]

\* The create_user requests of the submission workflow: one author
AuthorInputs ==
    [username : {NoneV, PyStr("alice")}, email : {PyStr("a@x.com")}]

SourceInputs ==
    [url : {Missing, PyStr(""), PyStr("not-a-valid-url"),
            PyStr("https://example.com/1")},
     title : {PyStr("S")},
     description : {PyStr("D")}]

SourceListInputs ==
    {NoneV} \cup {PyList(items) : items \in SeqsUpTo(SourceInputs, MaxSources)}

\* No user id, the first user's, and one no user has
UserIdInputs == {NoneV, PyInt(1), PyInt(MaxUsers + 1)}

ArgumentInputs ==
    [title : {NoneV, PyStr("T")},
     content : {NoneV, PyText(MIN_ARGUMENT_LENGTH - 1),
                PyText(MIN_ARGUMENT_LENGTH), PyText(MAX_ARGUMENT_LENGTH + 1)},
     category : {NoneV},
     user_id : UserIdInputs,
     sources : SourceListInputs]

RebuttalInputs ==
    [content : {NoneV, PyText(1)},
     user_id : UserIdInputs,
     sources : SourceListInputs]

ArgumentIdInputs == 1..(MaxArguments + 1)

\* The judge's replies: the call fails, the content is no JSON, the content
\* is a JSON list, or it is a JSON object with these is_valid and score
JudgeReplies ==
    {JudgeRaises, JudgeNotJson, JudgeJson(PyList(<<>>))} \cup
    {JudgeJson(JsonVerdict(r[1], r[2], PyList(<<>>), PyList(<<>>))) :
        r \in {<<PyBool(TRUE), PyInt(ApprovalThreshold)>>,
               <<PyBool(TRUE), PyInt(ApprovalThreshold - 1)>>,
               <<PyStr("false"), PyInt(ApprovalThreshold)>>,
               <<PyBool(TRUE), PyStr("85")>>}}

ApiKeys == {NoneV, PyStr("sk-test")}

\* Submissions for the listing: every check passed or the title missing,
\* with no category, an empty one and a named one
ListedArgumentInputs ==
    [title : {NoneV, PyStr("T")},
     content : {PyText(MIN_ARGUMENT_LENGTH)},
     category : {Missing, PyStr(""), PyStr("science")},
     user_id : {PyInt(1)},
     sources : {PyList(<<[url |-> PyStr("https://example.com/1"),
                          title |-> PyStr("S"), description |-> PyStr("D")],
                         [url |-> PyStr("https://example.com/1"),
                          title |-> PyStr("S"), description |-> PyStr("D")]>>)}]

\* The status parameter of GET /api/arguments: absent, empty, or a status
StatusParams ==
    {Missing, PyStr(""), PyStr("approved"), PyStr("rejected"),
     PyStr("pending")}

\* The category parameter: absent, empty, or a category
CategoryParams == {Missing, PyStr(""), PyStr("science")}

----------------------------------------------------------------------------
(* The state machine *)

\* A concurrent create_user request not answered yet
NotDone == [resp |-> NoResp, passed_check |-> FALSE]

Init ==
    /\ users = <<>>
    /\ arguments = <<>>
    /\ rebuttals = <<>>
    /\ apiKey \in ApiKeys
    /\ resp = NoResp
    /\ inflight = [c \in Clients |-> NoneV]
    /\ done = [c \in Clients |-> NotDone]
    /\ now = 0

\* create_user inserting the row before it validates the request
create_user_insert_first(data) ==
    /\ resp = NoResp
    /\ LET r == create_user_check(data, users)
           c == create_user_commit(data, users)
       IN /\ Len(c.users) <= MaxUsers
          /\ users' = c.users
          /\ resp' = IF r # Pass
                     THEN [r EXCEPT !.data = data]
                     ELSE [c.resp EXCEPT !.data = data]
    /\ UNCHANGED <<arguments, rebuttals, apiKey, inflight, done, now>>

\* POST /api/users, the handler run without interleaving
create_user(data) ==
    /\ resp = NoResp
    /\ LET r == create_user_check(data, users)
       IN IF r # Pass
          THEN /\ resp' = [r EXCEPT !.data = data]
               /\ users' = users
          ELSE LET c == create_user_commit(data, users)
               IN /\ Len(c.users) <= MaxUsers
                  /\ users' = c.users
                  /\ resp' = [c.resp EXCEPT !.data = data]
    /\ UNCHANGED <<arguments, rebuttals, apiKey, inflight, done, now>>

\* The Argument row of lines 147-177, with its Source children
ArgumentRow(id, data, fact_check_result, d, utcnow) ==
    [id |-> id,
     created_at |-> utcnow,
     title |-> data.title,
     content |-> data.content,
     category |-> Get(data.category),
     user_id |-> data.user_id.n,
     is_verified |-> d.is_verified,
     verification_status |-> d.verification_status,
     ai_fact_check_result |-> fact_check_result,
     sources |-> SourceRows(data.sources.items)]

\* The Rebuttal row of lines 226-256, with its RebuttalSource children
RebuttalRow(id, argument_id, data, fact_check_result, d, utcnow) ==
    [id |-> id,
     created_at |-> utcnow,
     argument_id |-> argument_id,
     user_id |-> data.user_id.n,
     content |-> data.content,
     is_verified |-> d.is_verified,
     verification_status |-> d.verification_status,
     ai_fact_check_result |-> fact_check_result,
     sources |-> SourceRows(data.sources.items)]

\* POST /api/arguments
submit_argument(data) ==
    /\ resp = NoResp
    /\ LET r == ArgumentChecks(data, users)
       IN IF r # Pass
          THEN /\ resp' = [r EXCEPT !.data = data]
               /\ arguments' = arguments
          ELSE \E reply \in JudgeReplies :
               LET fc == check_argument(apiKey, reply)
                   d == Decision(fc.result)
               IN IF d.raised # "none"
                  THEN /\ resp' = [Response("submit_argument", 500, d.raised)
                                      EXCEPT !.data = data,
                                             !.judge_calls = fc.calls]
                       /\ arguments' = arguments
                  ELSE /\ Len(arguments) < MaxArguments
                       /\ arguments' =
                              Append(arguments,
                                     ArgumentRow(Len(arguments) + 1, data,
                                                 fc.result, d, now))
                       /\ resp' = [Response("submit_argument", 201, "")
                                      EXCEPT !.data = data,
                                             !.judge_calls = fc.calls,
                                             !.fact_check = fc.result,
                                             !.id = Len(arguments) + 1]
    /\ UNCHANGED <<users, rebuttals, apiKey, inflight, done, now>>

\* POST /api/arguments/<argument_id>/rebuttals
submit_rebuttal(argument_id, data) ==
    /\ resp = NoResp
    /\ LET r == RebuttalChecks(argument_id, data, users, arguments)
       IN IF r # Pass
          THEN /\ resp' = [r EXCEPT !.data = data,
                                    !.argument_id = argument_id]
               /\ rebuttals' = rebuttals
          ELSE \E reply \in JudgeReplies :
               LET fc == check_rebuttal(apiKey, reply)
                   d == Decision(fc.result)
               IN IF d.raised # "none"
                  THEN /\ resp' = [Response("submit_rebuttal", 500, d.raised)
                                      EXCEPT !.data = data,
                                             !.argument_id = argument_id,
                                             !.judge_calls = fc.calls]
                       /\ rebuttals' = rebuttals
                  ELSE /\ Len(rebuttals) < MaxRebuttals
                       /\ rebuttals' =
                              Append(rebuttals,
                                     RebuttalRow(Len(rebuttals) + 1,
                                                 argument_id, data,
                                                 fc.result, d, now))
                       /\ resp' = [Response("submit_rebuttal", 201, "")
                                      EXCEPT !.data = data,
                                             !.argument_id = argument_id,
                                             !.judge_calls = fc.calls,
                                             !.fact_check = fc.result,
                                             !.id = Len(rebuttals) + 1]
    /\ UNCHANGED <<users, arguments, apiKey, inflight, done, now>>

\* The ids of the rows the filters of lines 87-90 keep
FilterArguments(status, category, args) ==
    {i \in 1..Len(args) :
        /\ Truthy(status) => args[i].verification_status = status.s
        /\ Truthy(category) => args[i].category = category}

\* order_by with the oldest row first
OrderByCreatedAt_asc(S, args) ==
    {s \in [1..Cardinality(S) -> S] :
        \A i, j \in 1..Cardinality(S) :
            i < j => /\ s[i] # s[j]
                     /\ args[s[i]].created_at <= args[s[j]].created_at}

\* order_by(Argument.created_at.desc()): the orders the store may return the
\* rows S in, rows of equal created_at in any order
OrderByCreatedAt_desc(S, args) ==
    {s \in [1..Cardinality(S) -> S] :
        \A i, j \in 1..Cardinality(S) :
            i < j => /\ s[i] # s[j]
                     /\ args[s[i]].created_at >= args[s[j]].created_at}

\* GET /api/arguments with the query parameters status and category
list_arguments(status, category) ==
    /\ resp = NoResp
    /\ LET st == GetOr(status, PyStr("approved"))
           cat == Get(category)
       IN \E s \in OrderByCreatedAt_desc(
                       FilterArguments(st, cat, arguments), arguments) :
              resp' = [Response("list_arguments", 200, "")
                          EXCEPT !.data = [status |-> status,
                                           category |-> category],
                                 !.listing =
                                     [i \in 1..Len(s) |-> arguments[s[i]]]]
    /\ UNCHANGED <<users, arguments, rebuttals, apiKey, inflight, done, now>>

\* Time passes between two requests
tick ==
    /\ resp = NoResp
    /\ now < MaxTime
    /\ now' = now + 1
    /\ UNCHANGED <<users, arguments, rebuttals, apiKey, resp, inflight, done>>

\* The response is returned to the client; the next request is taken
return_response ==
    /\ resp # NoResp
    /\ resp' = NoResp
    /\ UNCHANGED <<users, arguments, rebuttals, apiKey, inflight, done, now>>

\* restart with db.drop_all() before db.create_all()
restart_drop_all(key) ==
    /\ resp = NoResp
    /\ key # apiKey
    /\ apiKey' = key
    /\ users' = <<>>
    /\ arguments' = <<>>
    /\ rebuttals' = <<>>
    /\ UNCHANGED <<resp, inflight, done, now>>

\* The process is started again with another environment or key file: Config
\* is evaluated anew, the database file stays
restart(key) ==
    /\ resp = NoResp
    /\ key # apiKey
    /\ apiKey' = key
    /\ UNCHANGED <<users, arguments, rebuttals, resp, inflight, done, now>>

\* POST /api/users handled for client c while other create_user requests
\* run: lines 53-64, up to the existence query
create_user_begin(c, data) ==
    /\ inflight[c] = NoneV
    /\ done[c] = NotDone
    /\ LET r == create_user_check(data, users)
       IN IF r # Pass
          THEN /\ done' = [done EXCEPT ![c] =
                              [resp |-> [r EXCEPT !.data = data],
                               passed_check |-> FALSE]]
               /\ inflight' = inflight
          ELSE /\ inflight' = [inflight EXCEPT ![c] = data]
               /\ done' = done
    /\ UNCHANGED <<users, arguments, rebuttals, apiKey, resp, now>>

\* Lines 66-70 for client c
create_user_finish(c) ==
    /\ inflight[c] # NoneV
    /\ LET x == create_user_commit(inflight[c], users)
       IN /\ Len(x.users) <= MaxUsers
          /\ users' = x.users
          /\ done' = [done EXCEPT ![c] =
                         [resp |-> [x.resp EXCEPT !.data = inflight[c]],
                          passed_check |-> TRUE]]
    /\ inflight' = [inflight EXCEPT ![c] = NoneV]
    /\ UNCHANGED <<arguments, rebuttals, apiKey, resp, now>>

Next ==
    \/ \E data \in AuthorInputs : create_user(data)
    \/ \E data \in ArgumentInputs : submit_argument(data)
    \/ \E argument_id \in ArgumentIdInputs, data \in RebuttalInputs :
           submit_rebuttal(argument_id, data)
    \/ return_response
    \/ \E key \in ApiKeys : restart(key)

\* Requests handled one at a time
Spec == Init /\ [][Next]_vars

UserNext ==
    \/ \E data \in UserInputs : create_user(data)
    \/ return_response

\* create_user requests alone, one at a time
UserSpec == Init /\ [][UserNext]_vars

ConcNext ==
    \/ \E c \in Clients, data \in UserInputs : create_user_begin(c, data)
    \/ \E c \in Clients : create_user_finish(c)

\* create_user requests of several clients interleaved
ConcSpec == Init /\ [][ConcNext]_vars

ListNext ==
    \/ \E data \in AuthorInputs : create_user(data)
    \/ \E data \in ListedArgumentInputs : submit_argument(data)
    \/ \E status \in StatusParams, category \in CategoryParams :
           list_arguments(status, category)
    \/ tick
    \/ return_response

\* Arguments submitted at several times and listed
ListSpec == Init /\ [][ListNext]_vars

----------------------------------------------------------------------------
(* Properties *)

IsSubmission(r) == r.op \in {"submit_argument", "submit_rebuttal"}

\* The row a 201 response of a submission reports
CreatedRow(r) ==
    IF r.op = "submit_argument" THEN arguments[r.id] ELSE rebuttals[r.id]

\* The submission answered by r passed every structural check
PassedChecks(r) ==
    IF r.op = "submit_argument"
    THEN ArgumentChecks(r.data, users) = Pass
    ELSE RebuttalChecks(r.argument_id, r.data, users, arguments) = Pass

\* The verdict has is_valid == true and score >= 70
ValidAndScored(v) ==
    /\ v.is_valid = PyBool(TRUE)
    /\ v.score.t = "int"
    /\ v.score.n >= ApprovalThreshold

\* C1: every stored Argument and Rebuttal is 'approved' if and only if its
\* verdict has is_valid == true and score >= 70, and 'rejected' otherwise
C1_ApprovedIffValidAndScore ==
    /\ \A i \in 1..Len(arguments) :
           arguments[i].verification_status =
               IF ValidAndScored(arguments[i].ai_fact_check_result)
               THEN "approved" ELSE "rejected"
    /\ \A i \in 1..Len(rebuttals) :
           rebuttals[i].verification_status =
               IF ValidAndScored(rebuttals[i].ai_fact_check_result)
               THEN "approved" ELSE "rejected"

\* C2: with no judge credential configured, a submission that passes the
\* structural checks is answered 201 and stored 'rejected' with a verdict of
\* is_valid false and score 0, and no submission calls the judge
C2_NoCredentialRejects ==
    (~Truthy(apiKey) /\ IsSubmission(resp)) =>
        /\ resp.judge_calls = 0
        /\ PassedChecks(resp) =>
               /\ resp.status = 201
               /\ CreatedRow(resp).verification_status = "rejected"
               /\ CreatedRow(resp).ai_fact_check_result.is_valid = PyBool(FALSE)
               /\ CreatedRow(resp).ai_fact_check_result.score = PyInt(0)

\* A rebuttal stored while no credential is configured
C2_Witness ==
    /\ ~Truthy(apiKey)
    /\ resp.op = "submit_rebuttal"
    /\ resp.status = 201

\* C3: a rebuttal to an existing argument that is not 'approved' is answered
\* 400 "Can only rebut approved arguments" and calls no judge, whatever its body
C3_NotRebuttable ==
    (/\ resp.op = "submit_rebuttal"
     /\ resp.argument_id \in 1..Len(arguments)
     /\ arguments[resp.argument_id].verification_status # "approved") =>
        /\ resp.status = 400
        /\ resp.error = "Can only rebut approved arguments"
        /\ resp.judge_calls = 0
        /\ resp.id = 0

\* A rebuttal with neither content nor sources, sent to a rejected argument
\* while a key is configured
C3_Witness ==
    /\ resp.op = "submit_rebuttal"
    /\ resp.argument_id \in 1..Len(arguments)
    /\ arguments[resp.argument_id].verification_status = "rejected"
    /\ resp.data.content = NoneV
    /\ resp.data.sources = NoneV
    /\ Truthy(apiKey)
    /\ resp.status = 400

\* C4: every stored Rebuttal references an existing Argument whose
\* verification_status is 'approved'
C4_RebuttalParentApproved ==
    \A i \in 1..Len(rebuttals) :
        /\ rebuttals[i].argument_id \in 1..Len(arguments)
        /\ arguments[rebuttals[i].argument_id].verification_status = "approved"

\* A rebuttal stored under the second argument, the first one being rejected
C4_Witness ==
    /\ Len(rebuttals) = 1
    /\ Len(arguments) = 2
    /\ rebuttals[1].argument_id = 2
    /\ arguments[1].verification_status = "rejected"

\* C5: a submission that passed the structural checks is answered 201, with
\* its row stored and the verdict in the response
C5_PassedChecksAnswered201 ==
    (IsSubmission(resp) /\ PassedChecks(resp)) =>
        /\ resp.status = 201
        /\ resp.id >= 1
        /\ resp.fact_check.t = "dict"

\* is_valid a boolean, score an integer in 0..100, issues and recommendations
\* lists
WellFormedVerdict(v) ==
    /\ v.t = "dict"
    /\ v.is_valid.t = "bool"
    /\ v.score.t = "int"
    /\ v.score.n \in 0..100
    /\ v.issues.t = "list"
    /\ v.recommendations.t = "list"

\* C6: the verdict check_argument or check_rebuttal returned to a submission
\* is well formed
C6_VerdictWellFormed ==
    (IsSubmission(resp) /\ resp.status = 201) =>
        WellFormedVerdict(resp.fact_check)

\* Both fields of the create_user request are present
BothFields(d) == Truthy(d.username) /\ Truthy(d.email)

\* The username or the email of d is used by a user of us
Used(d, us) ==
    \E i \in 1..Len(us) : us[i].username = d.username \/ us[i].email = d.email

UniqueUsers ==
    \A i, j \in 1..Len(users) :
        i # j => /\ users[i].username # users[j].username
                 /\ users[i].email # users[j].email

\* C7 as stated: no two users share a username or an email; a create_user
\* whose username or email is used is answered 409 and adds no user; one with
\* both fields present and neither used is answered 201
C7_Original ==
    /\ []UniqueUsers
    /\ [][resp'.op = "create_user" =>
            /\ Used(resp'.data, users) =>
                   (resp'.status = 409 /\ users' = users)
            /\ (BothFields(resp'.data) /\ ~Used(resp'.data, users)) =>
                   (resp'.status = 201 /\ Len(users') = Len(users) + 1)]_vars

\* C7 amended: as C7, the 409 being the answer when both fields are present
\* (with a field absent the answer is 400, and no user is added either)
C7_UniqueUsers ==
    /\ []UniqueUsers
    /\ [][resp'.op = "create_user" =>
            /\ (BothFields(resp'.data) /\ Used(resp'.data, users)) =>
                   (resp'.status = 409 /\ users' = users)
            /\ ~BothFields(resp'.data) =>
                   (resp'.status = 400 /\ users' = users)
            /\ (BothFields(resp'.data) /\ ~Used(resp'.data, users)) =>
                   /\ resp'.status = 201
                   /\ Len(users') = Len(users) + 1
                   /\ users'[Len(users')].username = resp'.data.username
                   /\ users'[Len(users')].email = resp'.data.email]_vars

\* A 409 for a new email with a username already used
C7_Witness ==
    /\ resp.op = "create_user"
    /\ resp.status = 409
    /\ \E i \in 1..Len(users) :
           /\ users[i].username = resp.data.username
           /\ users[i].email # resp.data.email
    /\ \A i \in 1..Len(users) : users[i].email # resp.data.email

\* The two create_user requests collide
Collide(d1, d2) == d1.username = d2.username \/ d1.email = d2.email

\* C8: of two colliding create_user requests that both passed the existence
\* check, one is answered 201 and the other 409
C8_RaceOneSuccessOneConflict ==
    \A c1, c2 \in Clients :
        (/\ c1 # c2
         /\ done[c1].passed_check
         /\ done[c2].passed_check
         /\ Collide(done[c1].resp.data, done[c2].resp.data)) =>
            {done[c1].resp.status, done[c2].resp.status} = {201, 409}

\* The submission has fewer than MIN_SOURCES_REQUIRED sources, or no list
FewSources(r) ==
    \/ r.data.sources.t # "list"
    \/ Len(r.data.sources.items) < MIN_SOURCES_REQUIRED

\* The checks that come before the source count pass: for an argument the
\* three required fields, for a rebuttal the approved parent and the two
\* required fields
BeforeSourceCount(r) ==
    /\ r.op = "submit_argument" => Truthy(r.data.title)
    /\ r.op = "submit_rebuttal" =>
           /\ r.argument_id \in 1..Len(arguments)
           /\ arguments[r.argument_id].verification_status = "approved"
    /\ Truthy(r.data.content)
    /\ Truthy(r.data.user_id)

\* C9 as stated: a submission with fewer than MIN_SOURCES_REQUIRED sources
\* is answered with the sources error and calls no judge
C9_Original ==
    (IsSubmission(resp) /\ FewSources(resp)) =>
        /\ resp.status = 400
        /\ resp.error = "At least 2 sources are required"
        /\ resp.judge_calls = 0

\* C9 amended: such a submission is rejected, stores nothing and calls no
\* judge; its error is the sources error when the checks before the source
\* count pass, and the error of the first of those that fails otherwise
C9_TooFewSourcesRejected ==
    (IsSubmission(resp) /\ FewSources(resp)) =>
        /\ resp.status \in {400, 404}
        /\ resp.judge_calls = 0
        /\ resp.id = 0
        /\ IF BeforeSourceCount(resp)
           THEN /\ resp.status = 400
                /\ resp.error = "At least 2 sources are required"
           ELSE resp.error \in {"Title is required", "Content is required",
                                "User ID is required", "Not Found",
                                "Can only rebut approved arguments"}

\* A rebuttal with one source, sent to an approved argument
C9_Witness ==
    /\ resp.op = "submit_rebuttal"
    /\ resp.data.sources.t = "list"
    /\ Len(resp.data.sources.items) = 1
    /\ resp.error = "At least 2 sources are required"

\* The URL of the source is syntactically valid
UrlOk(source) == source.url.t = "str" /\ source.url.s \in ValidUrls

\* The submission has a source list with an invalid URL in it
HasInvalidUrl(r) ==
    /\ r.data.sources.t = "list"
    /\ \E i \in 1..Len(r.data.sources.items) : ~UrlOk(r.data.sources.items[i])

\* The response lists the sources with an invalid URL, each once, in order
IdentifiesInvalid(r) ==
    LET failing == SelectSeq(r.data.sources.items, LAMBDA x : ~UrlOk(x))
    IN /\ Len(r.invalid_sources) = Len(failing)
       /\ \A k \in 1..Len(failing) :
              /\ r.invalid_sources[k].url = GetOr(failing[k].url, PyStr(""))
              /\ r.invalid_sources[k].title = failing[k].title
              /\ ~r.invalid_sources[k].is_valid_url

\* The checks that come before the URL check pass
BeforeUrlCheck(r) ==
    /\ BeforeSourceCount(r)
    /\ ~FewSources(r)
    /\ r.op = "submit_argument" =>
           /\ r.data.content.len >= MIN_ARGUMENT_LENGTH
           /\ r.data.content.len <= MAX_ARGUMENT_LENGTH
    /\ r.data.user_id.n \in 1..Len(users)

\* C10 as stated: a submission with an invalid URL among its sources is
\* rejected, stores nothing, and the response lists the failing sources
C10_Original ==
    (IsSubmission(resp) /\ HasInvalidUrl(resp)) =>
        /\ resp.status = 400
        /\ resp.id = 0
        /\ IdentifiesInvalid(resp)

\* C10 amended: such a submission is rejected, stores nothing and calls no
\* judge; when the checks before the URL check pass, the response is the
\* URL error and lists exactly the failing sources
C10_InvalidUrlRejected ==
    (IsSubmission(resp) /\ HasInvalidUrl(resp)) =>
        /\ resp.status \in {400, 404}
        /\ resp.id = 0
        /\ resp.judge_calls = 0
        /\ BeforeUrlCheck(resp) =>
               /\ resp.status = 400
               /\ resp.error = "Invalid source URLs"
               /\ IdentifiesInvalid(resp)

\* An argument whose first source has no url and whose second is valid,
\* answered with the one failing source
C10_Witness ==
    /\ resp.op = "submit_argument"
    /\ resp.error = "Invalid source URLs"
    /\ Len(resp.invalid_sources) = 1
    /\ resp.data.sources.items[1].url = Missing
    /\ UrlOk(resp.data.sources.items[2])

\* Every structural rule holds of the submission: required fields, source
\* count, content length (arguments), known user, valid URLs, and for a
\* rebuttal an existing approved parent
StructurallyValid(r) == BeforeUrlCheck(r) /\ ~HasInvalidUrl(r)

\* The submission answered by r' appended exactly one row, which carries the
\* verdict of the response, and changed nothing else
OneRowStored ==
    /\ users' = users
    /\ IF resp'.op = "submit_argument"
       THEN /\ rebuttals' = rebuttals
            /\ Len(arguments') = Len(arguments) + 1
            /\ SubSeq(arguments', 1, Len(arguments)) = arguments
            /\ arguments'[Len(arguments')].ai_fact_check_result =
                   resp'.fact_check
       ELSE /\ arguments' = arguments
            /\ Len(rebuttals') = Len(rebuttals) + 1
            /\ SubSeq(rebuttals', 1, Len(rebuttals)) = rebuttals
            /\ rebuttals'[Len(rebuttals')].ai_fact_check_result =
                   resp'.fact_check

\* C11 as stated: a submission that violates a structural rule is rejected
\* without a judge call, and an accepted one (201) makes exactly one judge
\* call and stores one row
C11_Original ==
    /\ [](IsSubmission(resp) =>
            /\ ~StructurallyValid(resp) =>
                   (resp.judge_calls = 0 /\ resp.status \in {400, 404})
            /\ resp.status = 201 => resp.judge_calls = 1)
    /\ [][(IsSubmission(resp') /\ resp'.status = 201) => OneRowStored]_vars

\* C11 amended: as C11, an accepted submission making exactly one judge call
\* when a credential is configured and none when it is not
C11_JudgeAfterChecks ==
    /\ [](IsSubmission(resp) =>
            /\ ~StructurallyValid(resp) =>
                   (resp.judge_calls = 0 /\ resp.status \in {400, 404})
            /\ StructurallyValid(resp) =>
                   resp.judge_calls = (IF Truthy(apiKey) THEN 1 ELSE 0)
            /\ resp.status = 201 => StructurallyValid(resp))
    /\ [][(IsSubmission(resp') /\ resp'.status = 201) => OneRowStored]_vars

\* An argument accepted after one judge call
C11_Witness ==
    /\ resp.op = "submit_argument"
    /\ resp.status = 201
    /\ resp.judge_calls = 1
    /\ Truthy(apiKey)

\* The request answered by r asked for the approved arguments: status
\* absent or 'approved'
AsksApproved(r) ==
    /\ r.op = "list_arguments"
    /\ r.data.status \in {Missing, PyStr("approved")}

\* A named category was asked for (an empty category parameter names none)
CategoryGiven(r) ==
    r.data.category # Missing /\ r.data.category # PyStr("")

\* C12: a listing of the approved arguments holds exactly the stored
\* arguments whose verification_status is 'approved' and whose category is
\* the one asked for, when one is, each once, newest created_at first
C12_ListApprovedNewestFirst ==
    AsksApproved(resp) =>
        /\ {resp.listing[i] : i \in 1..Len(resp.listing)} =
               {arguments[i] : i \in
                   {k \in 1..Len(arguments) :
                       /\ arguments[k].verification_status = "approved"
                       /\ CategoryGiven(resp) =>
                              arguments[k].category = resp.data.category}}
        /\ \A i, j \in 1..Len(resp.listing) :
               i < j => /\ resp.listing[i] # resp.listing[j]
                        /\ resp.listing[i].created_at >=
                               resp.listing[j].created_at

\* Two approved arguments created at different times are listed by category
C12_Witness ==
    /\ AsksApproved(resp)
    /\ CategoryGiven(resp)
    /\ Len(resp.listing) = 2
    /\ resp.listing[1].created_at > resp.listing[2].created_at

\* The stored sources are enough and each has a valid URL
SourcesOk(row) ==
    /\ Len(row.sources) >= MIN_SOURCES_REQUIRED
    /\ \A i \in 1..Len(row.sources) : UrlOk(row.sources[i])

\* Every row of the table keeps its sources in the step
SourcesKept(table, table2) ==
    /\ Len(table2) >= Len(table)
    /\ \A i \in 1..Len(table) :
           table2[i].id = table[i].id /\ table2[i].sources = table[i].sources

\* C13: every stored Argument and Rebuttal has at least MIN_SOURCES_REQUIRED
\* sources, each with a syntactically valid URL, and no step changes the
\* sources of a stored record
C13_SourcesValidAndFixed ==
    /\ [](/\ \A i \in 1..Len(arguments) : SourcesOk(arguments[i])
          /\ \A i \in 1..Len(rebuttals) : SourcesOk(rebuttals[i]))
    /\ [][/\ SourcesKept(arguments, arguments')
          /\ SourcesKept(rebuttals, rebuttals')]_vars

\* A rebuttal is stored next to two arguments stored before it
C13_Witness ==
    /\ Len(arguments) = MaxArguments
    /\ Len(rebuttals) = 1
    /\ resp.op = "submit_rebuttal"
    /\ resp.status = 201

\* The admission rules of an argument in their order; element k tells that
\* the submission answered by r violates rule k (a field is missing when it
\* is absent, null or empty)
RuleViolated(r) ==
    << ~Truthy(r.data.title),
       ~Truthy(r.data.content),
       ~Truthy(r.data.user_id),
       FewSources(r),
       /\ r.data.content.t = "text"
       /\ \/ r.data.content.len < MIN_ARGUMENT_LENGTH
          \/ r.data.content.len > MAX_ARGUMENT_LENGTH,
       /\ r.data.user_id.t = "int"
       /\ \A i \in 1..Len(users) : users[i].id # r.data.user_id.n,
       HasInvalidUrl(r) >>

\* The status and the errors of each rule
RuleError ==
    << [status |-> 400, errors |-> {"Title is required"}],
       [status |-> 400, errors |-> {"Content is required"}],
       [status |-> 400, errors |-> {"User ID is required"}],
       [status |-> 400, errors |-> {"At least 2 sources are required"}],
       [status |-> 400,
        errors |-> {"Argument must be at least 100 characters",
                    "Argument must not exceed 5000 characters"}],
       [status |-> 404, errors |-> {"User not found"}],
       [status |-> 400, errors |-> {"Invalid source URLs"}] >>

\* C14: an argument submission is rejected with the error of the first rule
\* it violates, in the order title, content, user id, source count, content
\* length, user existence, URL validity
C14_FirstViolatedRule ==
    resp.op = "submit_argument" =>
        \A k \in 1..Len(RuleError) :
            (RuleViolated(resp)[k] /\ \A j \in 1..(k - 1) : ~RuleViolated(resp)[j])
                => /\ resp.status = RuleError[k].status
                   /\ resp.error \in RuleError[k].errors

\* Too-short content with too few sources is answered the sources error
C14_Witness ==
    /\ resp.op = "submit_argument"
    /\ RuleViolated(resp)[4]
    /\ RuleViolated(resp)[5]
    /\ resp.error = "At least 2 sources are required"

\* Every row of the table is the same row after the step
RowsKept(table, table2) ==
    /\ Len(table2) >= Len(table)
    /\ \A i \in 1..Len(table) : table2[i] = table[i]

\* C15: no step changes or removes a stored User, Argument or Rebuttal, with
\* its status, its verified flag, its verdict and its sources
C15_StoredRowsNeverChange ==
    [][/\ RowsKept(users, users')
       /\ RowsKept(arguments, arguments')
       /\ RowsKept(rebuttals, rebuttals')]_vars

\* An argument approved by the judge is still stored as approved after the
\* credential was taken away and a second argument was submitted
C15_Witness ==
    /\ Len(arguments) = 2
    /\ arguments[1].verification_status = "approved"
    /\ arguments[1].is_verified
    /\ arguments[2].ai_fact_check_result = NotConfiguredVerdict
    /\ ~Truthy(apiKey)

\* The step handles a user, argument or rebuttal request and answers it
\* with a client error
Answers4xx ==
    /\ resp = NoResp
    /\ resp' # NoResp
    /\ resp'.op \in {"create_user", "submit_argument", "submit_rebuttal"}
    /\ resp'.status \in 400..499

\* C16: a request answered with a 4xx error leaves the store as it was
C16_ClientErrorStoresNothing ==
    [][Answers4xx => /\ users' = users
                     /\ arguments' = arguments
                     /\ rebuttals' = rebuttals]_vars

\* A second user of the same name is refused while an argument is stored
C16_Witness ==
    /\ resp.op = "create_user"
    /\ resp.status = 409
    /\ Len(users) = 1
    /\ Len(arguments) = 1

\* The verified flag of the row agrees with its status
FlagAgrees(row) ==
    /\ row.is_verified <=> row.verification_status = "approved"
    /\ ~row.is_verified <=> row.verification_status = "rejected"

\* C17: of every stored Argument and Rebuttal, is_verified is true exactly
\* when verification_status is 'approved' and false exactly when it is
\* 'rejected'
C17_VerifiedIffApproved ==
    /\ \A i \in 1..Len(arguments) : FlagAgrees(arguments[i])
    /\ \A i \in 1..Len(rebuttals) : FlagAgrees(rebuttals[i])

\* An approved argument and a rejected rebuttal of it are stored
C17_Witness ==
    /\ Len(rebuttals) = 1
    /\ rebuttals[1].verification_status = "rejected"
    /\ ~rebuttals[1].is_verified
    /\ arguments[rebuttals[1].argument_id].is_verified

====
